---- MODULE Spec2Model ----
(***************************************************************************)
(* Model of GeradorEscalaDiaconos (src/src/gerador_escala.py): the roster, *)
(* the module-wide random source, the circular rotation of the "chave"     *)
(* role, the annual generation loop and the legacy weekly generation.      *)
(***************************************************************************)
EXTENDS Integers, Sequences, FiniteSets, TLC

\* ------------------------------------------------------------------ bounds
\* Longest roster passed to the constructor.
MaxRoster == 3
\* Number of days of the year that the date loop walks (stands for Dec 31).
YearDays == 8
\* Longest recorded run of direct rotation picks.
MaxPicks == 6
\* The same number of days in the scenarios that need a second Saturday after
\* an early Wednesday or Sunday.
LongYearDays == 11

\* ------------------------------------------------------------ value domains
NamePool == <<"Joao", "Maria", "Pedro", "Ana", "Carlos", "Julia", "Paulo", "Sofia">>
Names == {NamePool[i] : i \in 1..MaxRoster}

\* Python's None, for Optional[int] seeds, Optional[date] and absent objects.
None == <<>>
Some(x) == <<x>>

Inst == {"G1", "G2"}

DIAS_ESCALA == <<"domingo", "quarta", "sabado">>
MAPA_DIAS_SEMANA == [domingo |-> 6, quarta |-> 2, sabado |-> 5]

DiaconoEscala(nome, funcao, dia, data) ==
    [nome |-> nome, funcao |-> funcao, dia |-> dia, data |-> data]

InSeq(x, s) == \E i \in 1..Len(s) : s[i] = x
Distinct(s) == \A i, j \in 1..Len(s) : i # j => s[i] # s[j]

RECURSIVE SeqsUpTo(_, _)
SeqsUpTo(S, n) ==
    IF n = 0 THEN {<<>>}
    ELSE LET shorter == SeqsUpTo(S, n - 1)
         IN  shorter \cup {Append(s, x) : s \in {t \in shorter : Len(t) = n - 1}, x \in S}

\* --------------------------------------------------------- list objects
\* Python lists are objects: a list is reached through a reference and two
\* variables may name the same list.  heap maps each reference to the
\* list's current contents.
DiaconosRef == <<"diaconos", "main">>   \* the caller's list, passed to __init__
ListaRef(g) == <<"lista", g>>    \* the list made by lista_diaconos.copy()
DispRef(g) == <<"disp", g>>      \* diaconos_disponiveis of gerar_escala_semanal
TmpRef(g) == <<"tmp", g>>        \* the list built by _remover_diacono
Refs == {DiaconosRef} \cup {ListaRef(g) : g \in Inst}
          \cup {DispRef(g) : g \in Inst} \cup {TmpRef(g) : g \in Inst}

\* list.copy(): a new list object dst with the contents of src
ListCopy(h, src, dst) == [h EXCEPT ![dst] = h[src]]

RECURSIVE RemoveFirst(_, _)
RemoveFirst(s, x) ==
    IF s = <<>> THEN <<>>
    ELSE IF Head(s) = x THEN Tail(s)
    ELSE <<Head(s)>> \o RemoveFirst(Tail(s), x)

\* list.remove(x): removes the first x from the list object r, in place
ListRemove(h, r, x) == [h EXCEPT ![r] = RemoveFirst(@, x)]

\* A list that no variable names any more is dropped
Collect(h, r) == [h EXCEPT ![r] = <<>>]

\* ------------------------------------------------------ the random module
\* The state of the module-wide generator of `random`: origin is None while
\* it still runs on the entropy it was started with and Some(seed) after
\* random.seed(seed); pos counts the draws since seeding.  mt is the part of
\* the generator's (fixed, deterministic) output function that has been
\* observed so far: the index it yields at <<seed, pos, n>>.
random_seed(R, seed) == [R EXCEPT !.origin = Some(seed), !.pos = 0]

DrawKey(R, n) == <<R.origin[1], R.pos, n>>

Draws(R, n) ==
    IF R.origin = None THEN 1..n
    ELSE IF DrawKey(R, n) \in DOMAIN R.mt THEN {R.mt[DrawKey(R, n)]}
    ELSE 1..n

AfterDraw(R, n, i) ==
    IF R.origin = None THEN R
    ELSE [R EXCEPT !.pos = @ + 1, !.mt = (DrawKey(R, n) :> i) @@ @]

\* random.choice(seq) for a non-empty seq: the drawn element and the new state
random_choice(R, seq) ==
    {[random |-> AfterDraw(R, Len(seq), i), val |-> seq[i]] : i \in Draws(R, Len(seq))}

\* ------------------------------------------------- execution of the methods
\* A method runs on a machine state s: the random module, the heap, the
\* fields of self, the value it returns (ret) and the exception it raised.
\* Each method is the set of machine states it can end in.
NoExc == "none"

Raise(s, e) == [s EXCEPT !.exc = e]

\* Run F on every state of S that has not raised; a raised state propagates.
Then(S, F(_)) == UNION {IF s.exc # NoExc THEN {s} ELSE F(s) : s \in S}

Lista(s) == s.heap[s.lista]

AppendEscala(s, d) == [s EXCEPT !.escala = Append(@, d)]

_sortear_diacono(s, diaconos_disponiveis) ==
    IF diaconos_disponiveis = <<>>
    THEN {Raise(s, "ValueError")}
    ELSE {[s EXCEPT !.random = r.random, !.ret = r.val] :
              r \in random_choice(s.random, diaconos_disponiveis)}

\* returns a new list object (dst) without the name
_remover_diacono(h, lista, nome, dst) ==
    [h EXCEPT ![dst] = SelectSeq(h[lista], LAMBDA d : d # nome)]

\* ------------------------------------------------------------- the calendar
\* A date is <<year, day of the year>>; day 1 is January 1, and day 0 and
\* below are the last days of the year before.
Years == 2023..2030

\* The day of the year at which the date loop stops (data_fim, December 31 in
\* the code); fixed by the scenario and never changed by the program.
VARIABLE dia_fim

date(ano, dia_do_ano) == <<ano, dia_do_ano>>

\* date(ano, 1, 1).weekday(): 0 = Monday .. 6 = Sunday (Gregorian calendar)
Jan1Weekday(ano) ==
    LET y == ano - 1
    IN  (1 + 5 * (y % 4) + 4 * (y % 100) + 6 * (y % 400) + 6) % 7

weekday(d) == (Jan1Weekday(d[1]) + d[2] - 1) % 7

timedelta_add(d, days) == <<d[1], d[2] + days>>

RECURSIVE CalcularDatasLoop(_, _, _)
CalcularDatasLoop(data_atual, data_fim, datas_por_dia) ==
    IF data_atual[2] > data_fim[2] THEN datas_por_dia
    ELSE LET dia_semana == weekday(data_atual)
             novo == IF dia_semana = MAPA_DIAS_SEMANA.domingo
                     THEN [datas_por_dia EXCEPT !.domingo = Append(@, data_atual)]
                     ELSE IF dia_semana = MAPA_DIAS_SEMANA.quarta
                     THEN [datas_por_dia EXCEPT !.quarta = Append(@, data_atual)]
                     ELSE IF dia_semana = MAPA_DIAS_SEMANA.sabado
                     THEN [datas_por_dia EXCEPT !.sabado = Append(@, data_atual)]
                     ELSE datas_por_dia
         IN  CalcularDatasLoop(timedelta_add(data_atual, 1), data_fim, novo)

_calcular_datas_ano(ano) ==
    CalcularDatasLoop(date(ano, 1), date(ano, dia_fim),
                      [domingo |-> <<>>, quarta |-> <<>>, sabado |-> <<>>])

\* list.sort(key=lambda x: x[0]): stable insertion by date
RECURSIVE InsertByDate(_, _)
InsertByDate(sorted, x) ==
    IF sorted = <<>> THEN <<x>>
    ELSE IF x[1][2] < Head(sorted)[1][2] THEN <<x>> \o sorted
    ELSE <<Head(sorted)>> \o InsertByDate(Tail(sorted), x)

RECURSIVE SortByDate(_)
SortByDate(s) ==
    IF s = <<>> THEN <<>>
    ELSE InsertByDate(SortByDate(SubSeq(s, 1, Len(s) - 1)), s[Len(s)])

\* the (date, day) pairs without the sort of line 191
TodasDatas_sem_sort(ano) ==
    LET datas_por_dia == _calcular_datas_ano(ano)
        pares(dia) == [i \in 1..Len(datas_por_dia[dia]) |-> <<datas_por_dia[dia][i], dia>>]
    IN  pares("domingo") \o pares("quarta") \o pares("sabado")

\* lines 186-191 of gerar_escala_anual: the (date, day) pairs in date order
TodasDatas(ano) ==
    LET datas_por_dia == _calcular_datas_ano(ano)
        pares(dia) == [i \in 1..Len(datas_por_dia[dia]) |-> <<datas_por_dia[dia][i], dia>>]
    IN  SortByDate(pares("domingo") \o pares("quarta") \o pares("sabado"))

\* ------------------------------------------------------------- annual mode
\* _obter_proximo_chave_circular that forgets to leave out the used names
_obter_proximo_chave_circular_semfiltro(s) ==
    LET usadas1 == IF Len(s.usadas) >= Len(Lista(s)) THEN <<>> ELSE s.usadas
    IN  {[s EXCEPT !.random = r.random,
                   !.usadas = Append(usadas1, r.val),
                   !.picks = Append(@, r.val),
                   !.ret = r.val] : r \in random_choice(s.random, Lista(s))}

\* the clearing step with > in place of >=
_chaves_usadas_reiniciada_maior(s) ==
    IF Len(s.usadas) > Len(Lista(s)) THEN <<>> ELSE s.usadas

\* lines 122-123: the used-list after the clearing step
_chaves_usadas_reiniciada(s) ==
    IF Len(s.usadas) >= Len(Lista(s)) THEN <<>> ELSE s.usadas

\* lines 126-128: the candidates, roster members not in the used-list
diaconos_disponiveis_rodada(s) ==
    SelectSeq(Lista(s), LAMBDA d : ~InSeq(d, _chaves_usadas_reiniciada(s)))

_obter_proximo_chave_circular(s) ==
    LET usadas1 == _chaves_usadas_reiniciada(s)
        disponiveis1 == diaconos_disponiveis_rodada(s)
        usadas2 == IF disponiveis1 = <<>> THEN <<>> ELSE usadas1
        disponiveis2 == IF disponiveis1 = <<>> THEN Lista(s) ELSE disponiveis1
    IN  {[s EXCEPT !.random = r.random,
                   !.usadas = Append(usadas2, r.val),
                   !.picks = Append(@, r.val),
                   !.ret = r.val] : r \in random_choice(s.random, disponiveis2)}

\* _encontrar_sabado_semana with the Wednesday offset one day short
_encontrar_sabado_semana_quarta3(data_evento) ==
    LET dia_semana == weekday(data_evento)
    IN  IF dia_semana = 6 THEN Some(timedelta_add(data_evento, -1))
        ELSE IF dia_semana = 2 THEN Some(timedelta_add(data_evento, -3))
        ELSE None

_encontrar_sabado_semana(data_evento) ==
    LET dia_semana == weekday(data_evento)
    IN  IF dia_semana = 6 THEN Some(timedelta_add(data_evento, -1))
        ELSE IF dia_semana = 2 THEN Some(timedelta_add(data_evento, -4))
        ELSE None

\* _adicionar_escala_dia_anual whose fallback keeps its pick for the rest of
\* the week, under the key of the week's Saturday
_adicionar_escala_dia_anual_guarda(s, dia, data_evento) ==
    LET sabado_semana == _encontrar_sabado_semana(data_evento)
        guarda(t) == {[t EXCEPT !.semanal = (sabado_semana[1] :> t.ret) @@ @]}
        chave(t) == {AppendEscala(t, DiaconoEscala(t.ret, "chave", dia, Some(data_evento)))}
    IN  IF sabado_semana # None /\ sabado_semana[1] \in DOMAIN s.semanal
        THEN chave([s EXCEPT !.ret = s.semanal[sabado_semana[1]]])
        ELSE Then(Then(_obter_proximo_chave_circular(s), guarda), chave)

_adicionar_escala_dia_anual(s, dia, data_evento) ==
    LET sabado_semana == _encontrar_sabado_semana(data_evento)
        chave(t) == {AppendEscala(t, DiaconoEscala(t.ret, "chave", dia, Some(data_evento)))}
    IN  IF sabado_semana # None /\ sabado_semana[1] \in DOMAIN s.semanal
        THEN chave([s EXCEPT !.ret = s.semanal[sabado_semana[1]]])
        ELSE Then(_obter_proximo_chave_circular(s), chave)

\* _adicionar_escala_sabado_anual drawing a single "oferta" (range(1))
_adicionar_escala_sabado_anual_1oferta(s, data_evento) ==
    LET oferta(t) ==
            Then(_sortear_diacono(t, Lista(t)),
                 LAMBDA u : {AppendEscala(u, DiaconoEscala(u.ret, "oferta", "sabado",
                                                          Some(data_evento)))})
        chave(t) ==
            {AppendEscala([t EXCEPT !.semanal = (data_evento :> t.ret) @@ @],
                          DiaconoEscala(t.ret, "chave", "sabado", Some(data_evento)))}
    IN  Then(Then(_obter_proximo_chave_circular(s), chave), oferta)

_adicionar_escala_sabado_anual(s, data_evento) ==
    LET oferta(t) ==
            Then(_sortear_diacono(t, Lista(t)),
                 LAMBDA u : {AppendEscala(u, DiaconoEscala(u.ret, "oferta", "sabado",
                                                          Some(data_evento)))})
        chave(t) ==
            {AppendEscala([t EXCEPT !.semanal = (data_evento :> t.ret) @@ @],
                          DiaconoEscala(t.ret, "chave", "sabado", Some(data_evento)))}
    IN  Then(Then(Then(_obter_proximo_chave_circular(s), chave), oferta), oferta)

\* ------------------------------------------------------ legacy weekly mode
\* _adicionar_escala_dia whose line 284 removes the drawn name from the
\* roster (self.lista_diaconos.remove) instead of from the local list
_adicionar_escala_dia_remove_da_lista(s, dia, diaconos_disponiveis, evitar_repeticao, tmp) ==
    LET local == IF evitar_repeticao THEN tmp ELSE diaconos_disponiveis
        chave(t) ==
            LET t1 == AppendEscala(t, DiaconoEscala(t.ret, "chave", dia, None))
            IN  {IF evitar_repeticao
                 THEN [t1 EXCEPT !.heap = _remover_diacono(@, diaconos_disponiveis, t.ret, tmp)]
                 ELSE t1}
        sorteia_oferta(t) == _sortear_diacono(t, t.heap[local])
        oferta(t) ==
            LET t1 == AppendEscala(t, DiaconoEscala(t.ret, "oferta", dia, None))
            IN  {IF evitar_repeticao
                 THEN [t1 EXCEPT !.heap = ListRemove(@, t.lista, t.ret)]
                 ELSE t1}
    IN  Then(Then(Then(_sortear_diacono(s, s.heap[diaconos_disponiveis]), chave),
                  sorteia_oferta), oferta)

_adicionar_escala_dia(s, dia, diaconos_disponiveis, evitar_repeticao, tmp) ==
    LET \* the list that the local name diaconos_disponiveis refers to after
        \* line 273
        local == IF evitar_repeticao THEN tmp ELSE diaconos_disponiveis
        chave(t) ==
            LET t1 == AppendEscala(t, DiaconoEscala(t.ret, "chave", dia, None))
            IN  {IF evitar_repeticao
                 THEN [t1 EXCEPT !.heap = _remover_diacono(@, diaconos_disponiveis, t.ret, tmp)]
                 ELSE t1}
        sorteia_oferta(t) == _sortear_diacono(t, t.heap[local])
        oferta(t) ==
            LET t1 == AppendEscala(t, DiaconoEscala(t.ret, "oferta", dia, None))
            IN  {IF evitar_repeticao
                 THEN [t1 EXCEPT !.heap = ListRemove(@, local, t.ret)]
                 ELSE t1}
    IN  Then(Then(Then(_sortear_diacono(s, s.heap[diaconos_disponiveis]), chave),
                  sorteia_oferta), oferta)

_adicionar_escala_sabado(s, diaconos_disponiveis, evitar_repeticao, tmp) ==
    LET local == IF evitar_repeticao THEN tmp ELSE diaconos_disponiveis
        chave(t) ==
            LET t1 == AppendEscala(t, DiaconoEscala(t.ret, "chave", "sabado", None))
            IN  {IF evitar_repeticao
                 THEN [t1 EXCEPT !.heap = _remover_diacono(@, diaconos_disponiveis, t.ret, tmp)]
                 ELSE t1}
        sorteia_oferta(t) == _sortear_diacono(t, t.heap[local])
        oferta(t) ==
            LET t1 == AppendEscala(t, DiaconoEscala(t.ret, "oferta", "sabado", None))
            IN  {IF evitar_repeticao
                 THEN [t1 EXCEPT !.heap = _remover_diacono(@, local, t.ret, tmp)]
                 ELSE t1}
    IN  Then(Then(Then(Then(Then(_sortear_diacono(s, s.heap[diaconos_disponiveis]), chave),
                            sorteia_oferta), oferta), sorteia_oferta), oferta)

\* -------------------------------------------------- construction and resets
\* __init__ that seeds the random module before it checks the roster
__init___semente_primeiro(s, g, lista_diaconos_arg, seed) ==
    LET s1 == [s EXCEPT !.random = IF seed # None THEN random_seed(@, seed[1]) ELSE @]
    IN  IF s1.heap[lista_diaconos_arg] = <<>>
        THEN {Raise(s1, "ValueError")}
        ELSE {[s1 EXCEPT !.heap = ListCopy(@, lista_diaconos_arg, ListaRef(g)),
                         !.lista = ListaRef(g),
                         !.escala = <<>>,
                         !.usadas = <<>>,
                         !.semanal = <<>>,
                         !.picks = <<>>]}

\* __init__ that ignores the seed
__init___sem_semente(s, g, lista_diaconos_arg, seed) ==
    IF s.heap[lista_diaconos_arg] = <<>>
    THEN {Raise(s, "ValueError")}
    ELSE {[s EXCEPT !.heap = ListCopy(@, lista_diaconos_arg, ListaRef(g)),
                    !.lista = ListaRef(g),
                    !.escala = <<>>,
                    !.usadas = <<>>,
                    !.semanal = <<>>,
                    !.picks = <<>>]}

\* __init__ on the caller's list object lista_diaconos; self is the new
\* instance g, whose roster copy becomes the list object ListaRef(g).
__init__(s, g, lista_diaconos_arg, seed) ==
    IF s.heap[lista_diaconos_arg] = <<>>
    THEN {Raise(s, "ValueError")}
    ELSE {[s EXCEPT !.heap = ListCopy(@, lista_diaconos_arg, ListaRef(g)),
                    !.lista = ListaRef(g),
                    !.escala = <<>>,
                    !.usadas = <<>>,
                    !.semanal = <<>>,
                    !.picks = <<>>,
                    !.random = IF seed # None THEN random_seed(@, seed[1]) ELSE @]}

\* lines 178-180 of gerar_escala_anual
gerar_escala_anual_reset(s) ==
    [s EXCEPT !.escala = <<>>, !.usadas = <<>>, !.semanal = <<>>, !.picks = <<>>]

\* gerar_escala_semanal that does not empty escala_gerada first
gerar_escala_semanal_reset_acumula(s, disp) ==
    [s EXCEPT !.usadas = <<>>, !.picks = <<>>, !.heap = ListCopy(@, s.lista, disp)]

\* lines 215-217 of gerar_escala_semanal; disp is the new list object
gerar_escala_semanal_reset(s, disp) ==
    [s EXCEPT !.escala = <<>>, !.usadas = <<>>, !.picks = <<>>,
              !.heap = ListCopy(@, s.lista, disp)]

\* ------------------------------------------------------------------- state
VARIABLES
    random,          \* state of the module-wide random generator
    heap,            \* contents of the list objects
    lista_diaconos,  \* per instance: reference to its roster list, or None
    escala_gerada,   \* per instance: the stored schedule
    _chaves_usadas,  \* per instance: names used in the current rotation pass
    _chave_semanal,  \* per instance: Saturday date -> "chave" of that Saturday
    pc,              \* per instance: where its running generation call stands
    frame,           \* per instance: locals of the running generation call
    result,          \* per instance: outcome of its last finished call
    ctor,            \* per instance: the arguments its constructor received
    calls,           \* per instance: no generation call since construction, the first, a later one
    touched,         \* per instance: random module used by others since construction
    picks            \* per instance: rotation picks since the used-list was last reset

vars == <<random, heap, lista_diaconos, escala_gerada, _chaves_usadas,
          _chave_semanal, pc, frame, result, ctor, calls, touched, picks, dia_fim>>

Exists(g) == lista_diaconos[g] # None
Idle == \A g \in Inst : pc[g] = "idle"

NoFrame == [evitar_repeticao |-> FALSE, ano |-> 0, todas_datas |-> <<>>, i |-> 0]

Res(op, status, arg, value, first, clean) ==
    [op |-> op, status |-> status, arg |-> arg, value |-> value,
     first |-> first, clean |-> clean]

\* the machine state a method of instance g starts from
St(g) ==
    [random |-> random, heap |-> heap, lista |-> lista_diaconos[g],
     escala |-> escala_gerada[g], usadas |-> _chaves_usadas[g],
     semanal |-> _chave_semanal[g], picks |-> picks[g],
     ret |-> None, exc |-> NoExc]

\* the machine state s becomes the state of the program, for instance g
Commit(g, s, h, fresh) ==
    /\ random' = s.random
    /\ heap' = h
    /\ lista_diaconos' = [lista_diaconos EXCEPT ![g] = s.lista]
    /\ escala_gerada' = [escala_gerada EXCEPT ![g] = s.escala]
    /\ _chaves_usadas' = [_chaves_usadas EXCEPT ![g] = s.usadas]
    /\ _chave_semanal' = [_chave_semanal EXCEPT ![g] = s.semanal]
    /\ picks' = [picks EXCEPT ![g] = s.picks]
    /\ touched' = [h2 \in Inst |-> IF h2 = g THEN (~fresh /\ touched[g])
                                   ELSE touched[h2] \/ s.random # random]
    /\ dia_fim' = dia_fim

\* The rosters up to a renaming of the volunteers (the code only compares
\* names): every name is either one used earlier in the roster or the next
\* unused name of NamePool.
NamesOf(r) == {r[i] : i \in 1..Len(r)}
Canonical(r) ==
    \A i \in 1..Len(r) :
        \E k \in 1..(Cardinality(NamesOf(SubSeq(r, 1, i - 1))) + 1) : r[i] = NamePool[k]
RosterInputs == {r \in SeqsUpTo(Names, MaxRoster) : Canonical(r)}

InitYear(rosters, dias) ==
    /\ dia_fim = dias
    /\ random = [origin |-> None, pos |-> 0, mt |-> <<>>]
    /\ \E r \in rosters : heap = [x \in Refs |-> IF x = DiaconosRef THEN r ELSE <<>>]
    /\ lista_diaconos = [g \in Inst |-> None]
    /\ escala_gerada = [g \in Inst |-> <<>>]
    /\ _chaves_usadas = [g \in Inst |-> <<>>]
    /\ _chave_semanal = [g \in Inst |-> <<>>]
    /\ pc = [g \in Inst |-> "idle"]
    /\ frame = [g \in Inst |-> NoFrame]
    /\ result = [g \in Inst |-> Res("none", "none", None, <<>>, FALSE, FALSE)]
    /\ ctor = [g \in Inst |-> None]
    /\ calls = [g \in Inst |-> "none"]
    /\ touched = [g \in Inst |-> FALSE]
    /\ picks = [g \in Inst |-> <<>>]

InitWith(rosters) == InitYear(rosters, YearDays)

Init == InitWith(RosterInputs)

\* ----------------------------------------------------------------- actions
\* g = GeradorEscalaDiaconos(diaconos, seed)
Construct(g, seed) ==
    /\ Idle
    /\ \E s \in __init__(St(g), g, DiaconosRef, seed) :
          IF s.exc # NoExc
          THEN /\ Commit(g, [s EXCEPT !.lista = lista_diaconos[g]], s.heap, FALSE)
               /\ result' = [result EXCEPT ![g] =
                                Res("__init__", "raised", seed, <<>>, FALSE, FALSE)]
               /\ UNCHANGED <<ctor, calls>>
          ELSE /\ Commit(g, s, s.heap, TRUE)
               /\ result' = [result EXCEPT ![g] =
                                Res("__init__", "returned", seed, <<>>, FALSE, FALSE)]
               /\ ctor' = [ctor EXCEPT ![g] =
                              Some([lista |-> heap[DiaconosRef], seed |-> seed])]
               /\ calls' = [calls EXCEPT ![g] = "none"]
    /\ UNCHANGED <<pc, frame>>

\* a call that has started and not yet ended
Running(op, arg) == Res(op, "running", arg, <<>>, FALSE, FALSE)

\* how a generation call of g ends: by raising or by returning escala_gerada
Raised(g, op, arg) ==
    /\ pc' = [pc EXCEPT ![g] = "idle"]
    /\ frame' = [frame EXCEPT ![g] = NoFrame]
    /\ result' = [result EXCEPT ![g] = Res(op, "raised", arg, <<>>, FALSE, FALSE)]

Returned(g, op, arg, value) ==
    /\ pc' = [pc EXCEPT ![g] = "idle"]
    /\ frame' = [frame EXCEPT ![g] = NoFrame]
    /\ result' = [result EXCEPT ![g] =
                     Res(op, "returned", arg, value, calls[g] = "first",
                         calls[g] = "first" /\ ~touched[g])]

\* g.gerar_escala_semanal(evitar_repeticao): lines 215-217
gerar_escala_semanal_begin(g, evitar_repeticao) ==
    /\ Idle /\ Exists(g)
    /\ LET s == gerar_escala_semanal_reset(St(g), DispRef(g))
       IN  Commit(g, s, s.heap, FALSE)
    /\ pc' = [pc EXCEPT ![g] = "domingo"]
    /\ frame' = [frame EXCEPT ![g] = [NoFrame EXCEPT !.evitar_repeticao = evitar_repeticao]]
    /\ calls' = [calls EXCEPT ![g] = IF @ = "none" THEN "first" ELSE "later"]
    /\ result' = [result EXCEPT ![g] = Running("gerar_escala_semanal", evitar_repeticao)]
    /\ UNCHANGED ctor

\* lines 220 and 223: one call of _adicionar_escala_dia
gerar_escala_semanal_dia(g, dia, depois) ==
    /\ pc[g] = dia
    /\ \E s \in _adicionar_escala_dia(St(g), dia, DispRef(g),
                                      frame[g].evitar_repeticao, TmpRef(g)) :
          IF s.exc # NoExc
          THEN /\ Commit(g, s, Collect(Collect(s.heap, TmpRef(g)), DispRef(g)), FALSE)
               /\ Raised(g, "gerar_escala_semanal", frame[g].evitar_repeticao)
          ELSE /\ Commit(g, s, Collect(s.heap, TmpRef(g)), FALSE)
               /\ pc' = [pc EXCEPT ![g] = depois]
               /\ UNCHANGED <<frame, result>>
    /\ UNCHANGED <<ctor, calls>>

\* lines 226-228: _adicionar_escala_sabado and the return
gerar_escala_semanal_sabado(g) ==
    /\ pc[g] = "sabado"
    /\ \E s \in _adicionar_escala_sabado(St(g), DispRef(g),
                                         frame[g].evitar_repeticao, TmpRef(g)) :
          /\ Commit(g, s, Collect(Collect(s.heap, TmpRef(g)), DispRef(g)), FALSE)
          /\ IF s.exc # NoExc
             THEN Raised(g, "gerar_escala_semanal", frame[g].evitar_repeticao)
             ELSE Returned(g, "gerar_escala_semanal", frame[g].evitar_repeticao, s.escala)
    /\ UNCHANGED <<ctor, calls>>

\* g.gerar_escala_anual(ano): lines 178-191
gerar_escala_anual_begin(g, ano) ==
    /\ Idle /\ Exists(g)
    /\ LET s == gerar_escala_anual_reset(St(g))
       IN  Commit(g, s, s.heap, FALSE)
    /\ pc' = [pc EXCEPT ![g] = "anual"]
    /\ frame' = [frame EXCEPT ![g] = [NoFrame EXCEPT !.ano = ano, !.todas_datas = TodasDatas(ano), !.i = 1]]
    /\ calls' = [calls EXCEPT ![g] = IF @ = "none" THEN "first" ELSE "later"]
    /\ result' = [result EXCEPT ![g] = Running("gerar_escala_anual", ano)]
    /\ UNCHANGED ctor

\* lines 194-198: one iteration of the loop over todas_datas
gerar_escala_anual_step(g) ==
    /\ pc[g] = "anual"
    /\ frame[g].i <= Len(frame[g].todas_datas)
    /\ LET data_evento == frame[g].todas_datas[frame[g].i][1]
           dia_semana == frame[g].todas_datas[frame[g].i][2]
       IN  \E s \in (IF dia_semana = "sabado"
                     THEN _adicionar_escala_sabado_anual(St(g), data_evento)
                     ELSE _adicionar_escala_dia_anual(St(g), dia_semana, data_evento)) :
              /\ Commit(g, s, s.heap, FALSE)
              /\ IF s.exc # NoExc
                 THEN Raised(g, "gerar_escala_anual", frame[g].ano)
                 ELSE /\ frame' = [frame EXCEPT ![g].i = @ + 1]
                      /\ UNCHANGED <<pc, result>>
    /\ UNCHANGED <<ctor, calls>>

\* line 200
gerar_escala_anual_return(g) ==
    /\ pc[g] = "anual"
    /\ frame[g].i > Len(frame[g].todas_datas)
    /\ Returned(g, "gerar_escala_anual", frame[g].ano, escala_gerada[g])
    /\ UNCHANGED <<random, heap, lista_diaconos, escala_gerada, _chaves_usadas,
                   _chave_semanal, ctor, calls, touched, picks, dia_fim>>

\* a direct call g._obter_proximo_chave_circular()
RotationPick(g) ==
    /\ Idle /\ Exists(g) /\ Len(picks[g]) < MaxPicks
    /\ \E s \in _obter_proximo_chave_circular(St(g)) :
          /\ Commit(g, s, s.heap, FALSE)
          /\ result' = [result EXCEPT ![g] =
                           Res("_obter_proximo_chave_circular", "returned", None,
                               Some(s.ret), FALSE, FALSE)]
    /\ UNCHANGED <<pc, frame, ctor, calls>>

Semanal(g) ==
    \/ \E evitar_repeticao \in BOOLEAN : gerar_escala_semanal_begin(g, evitar_repeticao)
    \/ gerar_escala_semanal_dia(g, "domingo", "quarta")
    \/ gerar_escala_semanal_dia(g, "quarta", "sabado")
    \/ gerar_escala_semanal_sabado(g)

Anual(g) ==
    \/ \E ano \in Years : gerar_escala_anual_begin(g, ano)
    \/ gerar_escala_anual_step(g)
    \/ gerar_escala_anual_return(g)

\* The year main.py generates
AnoMain == 2026

\* One generator, built without a seed, used for any sequence of weekly calls
\* and annual calls for main.py's year.
Next ==
    \/ Construct("G1", None)
    \/ Semanal("G1")
    \/ gerar_escala_anual_begin("G1", AnoMain)
    \/ gerar_escala_anual_step("G1")
    \/ gerar_escala_anual_return("G1")

Spec == Init /\ [][Next]_vars

\* One generator, built without a seed, used for annual generation only.
NextAnual ==
    \/ Construct("G1", None)
    \/ Anual("G1")

SpecAnual == Init /\ [][NextAnual]_vars

\* ------------------------------------------------------------ observations
ReturnedFrom(g, op) == result[g].op = op /\ result[g].status = "returned"
RaisedFrom(g, op) == result[g].op = op /\ result[g].status = "raised"

\* how many assignments of the schedule E have this date and role
CountOn(E, data, funcao) ==
    Cardinality({i \in 1..Len(E) : E[i].data = Some(data) /\ E[i].funcao = funcao})

\* the names that hold the "chave" role on this date in the schedule E
ChaveOn(E, data) ==
    {E[i].nome : i \in {j \in 1..Len(E) : E[j].data = Some(data) /\ E[j].funcao = "chave"}}

DatesOfYear(ano) == {date(ano, d) : d \in 1..dia_fim}

\* ------------------------------------------------------------------ claims
\* C1: the schedule returned by gerar_escala_anual(Y) has, for every Saturday
\* of Y, exactly 1 "chave" and 2 "oferta" assignments, for every Sunday and
\* Wednesday of Y exactly 1 "chave" and no "oferta", and no assignment with
\* any other date or role.
C1_AnnualShape ==
    \A g \in Inst :
        ReturnedFrom(g, "gerar_escala_anual") =>
            LET E == result[g].value
                Y == result[g].arg
            IN  /\ \A dt \in DatesOfYear(Y) :
                      LET wd == weekday(dt)
                      IN  /\ CountOn(E, dt, "chave") = (IF wd \in {5, 6, 2} THEN 1 ELSE 0)
                          /\ CountOn(E, dt, "oferta") = (IF wd = 5 THEN 2 ELSE 0)
                /\ \A i \in 1..Len(E) :
                      /\ E[i].data # None
                      /\ E[i].data[1] \in DatesOfYear(Y)
                      /\ E[i].funcao \in {"chave", "oferta"}

\* a returned annual schedule holding a whole Saturday and the other days
C1_Witness ==
    /\ ReturnedFrom("G1", "gerar_escala_anual")
    /\ \E i \in 1..Len(result["G1"].value) :
          /\ result["G1"].value[i].dia = "sabado"
          /\ result["G1"].value[i].funcao = "oferta"
    /\ \E i \in 1..Len(result["G1"].value) : result["G1"].value[i].dia = "domingo"
    /\ \E i \in 1..Len(result["G1"].value) : result["G1"].value[i].dia = "quarta"

\* C2: in the schedule returned by gerar_escala_anual(Y), every Sunday whose
\* Saturday (1 day before) lies in Y and every Wednesday whose Saturday
\* (4 days before) lies in Y has the "chave" volunteer of that Saturday.
C2_WeeklyLink ==
    \A g \in Inst :
        ReturnedFrom(g, "gerar_escala_anual") =>
            LET E == result[g].value
                Y == result[g].arg
            IN  \A dt \in DatesOfYear(Y) :
                    LET back == IF weekday(dt) = 6 THEN 1
                                ELSE IF weekday(dt) = 2 THEN 4 ELSE 0
                        sab == timedelta_add(dt, 0 - back)
                    IN  (back > 0 /\ sab \in DatesOfYear(Y)) =>
                            /\ weekday(sab) = 5
                            /\ ChaveOn(E, dt) # {}
                            /\ ChaveOn(E, dt) = ChaveOn(E, sab)

\* a returned annual schedule, of a roster of several names, with a Wednesday
\* and a Sunday that follow a Saturday of the year
C2_Witness ==
    /\ ReturnedFrom("G1", "gerar_escala_anual")
    /\ Cardinality(NamesOf(ctor["G1"][1].lista)) >= 2
    /\ \E w, u \in DatesOfYear(result["G1"].arg) :
          /\ weekday(w) = 2 /\ timedelta_add(w, -4) \in DatesOfYear(result["G1"].arg)
          /\ weekday(u) = 6 /\ timedelta_add(u, -1) \in DatesOfYear(result["G1"].arg)

\* One generator, built without a seed, whose rotation pick is called directly.
NextRot ==
    \/ Construct("G1", None)
    \/ RotationPick("G1")

SpecRot == Init /\ [][NextRot]_vars

\* the roster of the instance g
Roster(g) == heap[lista_diaconos[g]]

\* the names of the n picks that start at pick number k
Run(g, k, n) == {picks[g][i] : i \in k..(k + n - 1)}

\* C3 (as claimed): for a roster of n distinct names, any n consecutive picks
\* of _obter_proximo_chave_circular, wherever the run starts, contain every
\* roster member exactly once.
C3_AnyRun ==
    \A g \in Inst :
        (Exists(g) /\ Distinct(Roster(g))) =>
            LET n == Len(Roster(g))
            IN  \A k \in 1..(Len(picks[g]) - n + 1) : Run(g, k, n) = NamesOf(Roster(g))

\* C3 (amended): for a roster of n distinct names, any n consecutive picks
\* that start at a pass boundary (pick number 1, n+1, 2n+1, ...) contain
\* every roster member exactly once.
C3_PassRun ==
    \A g \in Inst :
        (Exists(g) /\ Distinct(Roster(g))) =>
            LET n == Len(Roster(g))
            IN  \A k \in 1..(Len(picks[g]) - n + 1) :
                    ((k - 1) % n = 0) => Run(g, k, n) = NamesOf(Roster(g))

\* two whole passes over a roster of several distinct names
C3_Witness ==
    /\ Exists("G1") /\ Distinct(Roster("G1")) /\ Len(Roster("G1")) >= 2
    /\ ReturnedFrom("G1", "_obter_proximo_chave_circular")
    /\ Len(picks["G1"]) >= 2 * Len(Roster("G1"))

\* One generator, built without a seed, used for weekly generation only.
NextSemanal ==
    \/ Construct("G1", None)
    \/ Semanal("G1")

SpecSemanal == Init /\ [][NextSemanal]_vars

\* The same with a roster of five distinct names.
RosterCinco == SubSeq(NamePool, 1, 5)

InitCinco == InitWith({RosterCinco})

SpecCinco == InitCinco /\ [][NextSemanal]_vars

\* the seeds passed to the constructor: none, main.py's and a test's
SeedInputs == {None, Some(42), Some(123)}

\* the rosters of the seeded runs: empty, one name, two names
SeedRosters == {SubSeq(NamePool, 1, k) : k \in 0..2}

InitSeed == InitWith(SeedRosters)

\* every generator of the scenario is asked for the same year
SameYear(ano) ==
    \A h \in Inst : result[h].op = "gerar_escala_anual" => result[h].arg = ano

\* Two generators over the caller's roster, each constructed once (with or
\* without a seed) and each asked once for the annual schedule of one year.
NextSeed ==
    \E g \in Inst :
        \/ ~Exists(g) /\ \E seed \in SeedInputs : Construct(g, seed)
        \/ calls[g] = "none" /\ \E ano \in Years : SameYear(ano) /\ gerar_escala_anual_begin(g, ano)
        \/ gerar_escala_anual_step(g)
        \/ gerar_escala_anual_return(g)

SpecSeed == InitSeed /\ [][NextSeed]_vars

\* the names of a schedule, in order
Nomes(E) == [i \in 1..Len(E) |-> E[i].nome]

\* the (day, role) pairs a weekly schedule has, in order
SEMANA ==
    <<(<<"domingo", "chave">>), (<<"domingo", "oferta">>),
      (<<"quarta", "chave">>), (<<"quarta", "oferta">>),
      (<<"sabado", "chave">>), (<<"sabado", "oferta">>), (<<"sabado", "oferta">>)>>

\* C4: two runs with the same roster, seed and year, a run being the
\* construction of a generator with that roster and seed followed by one call
\* of gerar_escala_anual(year), return identical schedules.
C4_Determinism ==
    \A g, h \in Inst :
        ( /\ ReturnedFrom(g, "gerar_escala_anual") /\ result[g].clean
          /\ ReturnedFrom(h, "gerar_escala_anual") /\ result[h].clean
          /\ ctor[g] = ctor[h] /\ ctor[g][1].seed # None
          /\ result[g].arg = result[h].arg )
        => result[g].value = result[h].value

\* both generators have made such a run, of a roster that leaves choices
C4_Witness ==
    /\ ReturnedFrom("G1", "gerar_escala_anual") /\ result["G1"].clean
    /\ ReturnedFrom("G2", "gerar_escala_anual") /\ result["G2"].clean
    /\ ctor["G1"] = ctor["G2"] /\ ctor["G1"][1].seed # None
    /\ Len(ctor["G1"][1].lista) >= 2

\* C5 (as claimed): with a roster of at least 5 distinct names,
\* gerar_escala_semanal(evitar_repeticao=True) returns 7 assignments in which
\* no name appears more than once.
C5_NoRepeatInWeek ==
    \A g \in Inst :
        ( /\ ReturnedFrom(g, "gerar_escala_semanal") /\ result[g].arg = TRUE
          /\ Distinct(Roster(g)) /\ Len(Roster(g)) >= 5 )
        => /\ Len(result[g].value) = 7
           /\ Distinct(Nomes(result[g].value))

\* C6: after construction and any sequence of gerar_escala_semanal and
\* gerar_escala_anual calls, also calls that raise, the caller's list and the
\* generator's lista_diaconos hold the names passed to the constructor, in
\* the same order.
C6_RosterImmutable ==
    \A g \in Inst :
        Exists(g) => /\ heap[DiaconosRef] = ctor[g][1].lista
                     /\ Roster(g) = ctor[g][1].lista

\* a second generation call on the instance has raised
C6_Witness ==
    /\ RaisedFrom("G1", "gerar_escala_semanal")
    /\ calls["G1"] = "later"
    /\ Len(escala_gerada["G1"]) >= 2

C8_NoPartialOutput ==
    \A g \in Inst :
        (result[g].status = "raised" /\ result[g].op # "__init__") => escala_gerada[g] = <<>>

\* C9: constructing a generator with an empty roster raises before anything
\* is created: no instance exists, no schedule is produced and the random
\* module is not reseeded, also when a seed is passed.
C9_EmptyRoster ==
    heap[DiaconosRef] = <<>> =>
        /\ random.origin = None
        /\ \A g \in Inst :
              /\ ~Exists(g)
              /\ escala_gerada[g] = <<>>
              /\ pc[g] = "idle"
              /\ result[g].op \in {"none", "__init__"}
              /\ result[g].status \in {"none", "raised"}

\* the constructor was given an empty roster and a seed, and raised
C9_Witness ==
    /\ heap[DiaconosRef] = <<>>
    /\ RaisedFrom("G1", "__init__")
    /\ result["G1"].arg # None

\* C10 (as claimed): the schedule a seeded generator returns from its
\* gerar_escala_anual(Y) is the same whether or not another generator was
\* constructed or made draws between its construction and that call.
C10_Isolation ==
    \A g, h \in Inst :
        ( /\ ReturnedFrom(g, "gerar_escala_anual") /\ result[g].first
          /\ ReturnedFrom(h, "gerar_escala_anual") /\ result[h].clean
          /\ ctor[g] = ctor[h] /\ ctor[g][1].seed # None
          /\ result[g].arg = result[h].arg )
        => result[g].value = result[h].value

\* Rosters of distinct names: two names, three names.
RostersDistintos == {SubSeq(NamePool, 1, k) : k \in 2..3}

InitLongo == InitYear(RostersDistintos, LongYearDays)

\* One generator over such a roster, built without a seed, used for annual
\* generation over the longer stretch of the year.
SpecLongo == InitLongo /\ [][NextAnual]_vars

\* the "chave" volunteers of the Saturdays of the schedule E, in date order
SabadoChaves(E) ==
    Nomes(SelectSeq(E, LAMBDA e : e.dia = "sabado" /\ e.funcao = "chave"))

\* C11 (as claimed): in the schedule gerar_escala_anual returns for a roster
\* of n >= 2 distinct names, the Saturday "chave" volunteers, cut in date
\* order into blocks of n from the first Saturday of the year, have no
\* volunteer twice inside a block, whatever weekday January 1 falls on.
C11_SaturdayBlocks ==
    \A g \in Inst :
        ( /\ ReturnedFrom(g, "gerar_escala_anual")
          /\ Distinct(Roster(g)) /\ Len(Roster(g)) >= 2 )
        => LET S == SabadoChaves(result[g].value)
               n == Len(Roster(g))
           IN  \A i, j \in 1..Len(S) :
                   (i < j /\ (i - 1) \div n = (j - 1) \div n) => S[i] # S[j]

\* One generator, built without a seed, whose rotation pick is called directly
\* between annual generations of main.py's year, each of which resets the
\* used-list and makes its own picks.
NextRodada ==
    \/ Construct("G1", None)
    \/ RotationPick("G1")
    \/ gerar_escala_anual_begin("G1", AnoMain)
    \/ gerar_escala_anual_step("G1")
    \/ gerar_escala_anual_return("G1")

SpecRodada == Init /\ [][NextRodada]_vars

\* C12: for a roster of distinct names, whenever a rotation pick may start,
\* after any sequence of picks and generation resets, the candidate list
\* computed after the clearing step is not empty (the defensive branch is not
\* taken), and the used-list holds pairwise distinct roster members, at most
\* as many as the roster has.
C12_CandidatesNeverEmpty ==
    \A g \in Inst :
        (Exists(g) /\ Distinct(Roster(g))) =>
            /\ diaconos_disponiveis_rodada(St(g)) # <<>>
            /\ Distinct(_chaves_usadas[g])
            /\ NamesOf(_chaves_usadas[g]) \subseteq NamesOf(Roster(g))
            /\ Len(_chaves_usadas[g]) <= Len(Roster(g))

\* after a generation, direct picks have filled the used-list of a roster of
\* several distinct names in a second pass: the next pick has to clear it
C12_Witness ==
    /\ Exists("G1") /\ Distinct(Roster("G1")) /\ Len(Roster("G1")) >= 2
    /\ calls["G1"] # "none"
    /\ ReturnedFrom("G1", "_obter_proximo_chave_circular")
    /\ Len(picks["G1"]) > Len(Roster("G1"))
    /\ Len(_chaves_usadas["G1"]) = Len(Roster("G1"))

\* the Saturdays of the year
Sabados(ano) == {dt \in DatesOfYear(ano) : weekday(dt) = 5}

\* the Sundays and Wednesdays of the year earlier than its first Saturday
AntesDoPrimeiroSabado(ano) ==
    {dt \in DatesOfYear(ano) :
        weekday(dt) \in {6, 2} /\ \A sab \in Sabados(ano) : dt[2] < sab[2]}

\* the Saturday before a Sunday (1 day) or a Wednesday (4 days)
SabadoAnterior(dt) == timedelta_add(dt, IF weekday(dt) = 6 THEN -1 ELSE -4)

PrimeiroSabado(ano) ==
    CHOOSE sab \in Sabados(ano) : \A outro \in Sabados(ano) : sab[2] <= outro[2]

====
